---------------------------- MODULE Spec2Model ----------------------------
(***************************************************************************)
(* A model of django_websockets2: the ASGI entry point                     *)
(* BaseASGIHandler.__call__ with its lifespan loop and its response        *)
(* streamer send_response (asgi_handler.py), and the middleware chain      *)
(* builder AsyncMiddlewareHandler.load_middleware (base.py).               *)
(*                                                                         *)
(* One connection is one run of the coroutine __call__.  An action runs    *)
(* the coroutine from one suspension point (an await of receive or send)   *)
(* to the next, which is how the event loop interleaves it.                *)
(***************************************************************************)
EXTENDS Integers, Sequences, FiniteSets

(***************************************************************************)
(* Bounds of the model.                                                    *)
(***************************************************************************)
\* longest buffer (response content, one streamed part)
MaxLen == 3
\* most parts a streaming response yields
MaxParts == 2
\* largest chunk_size tried
MaxChunk == 2
\* most receive calls on one connection
MaxRecv == 3
\* longest settings.MIDDLEWARE list
MaxMiddleware == 2
\* most calls of load_middleware on one handler
MaxLoads == 2
MaxOther == 1

VARIABLES
    \* ---- one connection: BaseASGIHandler.__call__(scope, receive, send)
    scope0,       \* the scope as the server passed it (history)
    scope,        \* transport.scope, the same dict, mutated in place
    chunk_size,   \* the handler class's chunk_size
    pc,           \* where the coroutine is suspended, or "done" / "raised"
    error,        \* the exception that left __call__, "none" if none
    nrecv,        \* number of receive calls made
    message,      \* the message the last receive returned
    lifespan_received, \* the messages handle_lifespan received (history)
    body_file,    \* read_body's buffer
    request,      \* <<>> or <<the Request>>
    dispatched,   \* number of get_response_async calls
    response,     \* <<>> or <<the response handed to send_response>>
    parts,        \* the parts the response iterator has not produced yet
    chunks,       \* the (chunk, last) pairs chunk_bytes has not yielded yet
    sent,         \* the messages passed to send, in call order
    closed,       \* number of response.close() calls
    \* ---- the handler object: AsyncMiddlewareHandler.load_middleware
    MIDDLEWARE,   \* settings.MIDDLEWARE
    lm_pc,        \* "idle", "loop", "returned" or "raised"
    lm_error,     \* the exception the last load_middleware raised
    lm_todo,      \* reversed(settings.MIDDLEWARE) not yet visited
    handler,      \* the local `handler`: the layers wrapped so far
    loads,        \* number of load_middleware calls
    is_async,     \* the argument of the running load_middleware call
    _view_middleware,
    _template_response_middleware,
    _exception_middleware,
    _middleware_chain,  \* <<>> while unset, else <<the published handler>>
    \* ---- one request: AsyncMiddlewareHandler._get_response_async(request)
    d_pc,         \* where the coroutine is, or "returned" / "raised"
    d_view_async, \* asyncio.iscoroutinefunction(wrapped_callback)
    d_response,   \* the local `response`
    d_error,      \* the exception caught or leaving, "none" if none
    d_i,          \* position in the hook list being gone through
    d_from,       \* the try block whose exception is being recovered
    running,      \* <<>> or <<the blocking call running, and its thread>>
    others,       \* steps the event loop has made for another connection
    view_calls,   \* the process_view calls made, with results (history)
    exec_called,  \* the view callback was called (history)
    recoveries,   \* the process_exception_by_middleware calls (history)
    exc_calls,    \* the process_exception calls of the last one (history)
    template_calls, \* the process_template_response calls made (history)
    render_called \* response.render was called (history)

conn_vars == <<scope0, scope, chunk_size, pc, error, nrecv, message,
               lifespan_received, body_file, request, dispatched, response,
               parts, chunks, sent, closed>>
load_vars == <<MIDDLEWARE, lm_pc, lm_error, lm_todo, handler, loads, is_async,
               _view_middleware, _template_response_middleware,
               _exception_middleware, _middleware_chain>>
disp_vars == <<d_pc, d_view_async, d_response, d_error, d_i, d_from, running,
               others, view_calls, exec_called, recoveries, exc_calls,
               template_calls, render_called>>
vars == <<conn_vars, load_vars, disp_vars>>

(***************************************************************************)
(* Bytes.  A buffer of length n is <<1, .., n>>: one buffer per length,    *)
(* with every position distinguishable, so a slice shows where it was cut. *)
(***************************************************************************)
RECURSIVE Bytes(_)
Bytes(n) == IF n = 0 THEN <<>> ELSE Append(Bytes(n - 1), n)

Buffers == { Bytes(n) : n \in 0..MaxLen }

Min(a, b) == IF a < b THEN a ELSE b

\* Python's data[from:to]
Slice(data, from, to) == SubSeq(data, from + 1, Min(to, Len(data)))

RECURSIVE SeqsUpTo(_, _)
SeqsUpTo(S, n) ==
    IF n = 0 THEN { <<>> }
    ELSE LET shorter == SeqsUpTo(S, n - 1)
         IN  shorter \cup { Append(s, x) : s \in shorter, x \in S }


(***************************************************************************)
(* Scopes, messages, responses: the inputs of one connection.              *)
(***************************************************************************)
\* A scope is a dict: a record whose "method" key may be missing.
Scopes ==
    { [type |-> t] : t \in {"http", "websocket", "lifespan", "mqtt"} }
    \cup { [type |-> t, method |-> m] :
             t \in {"http", "websocket"}, m \in {"GET", "POST"} }

\* What receive may return on an http or websocket connection.
RequestMessages ==
    { [type |-> "http.request", body |-> b, more_body |-> m] :
        b \in {Bytes(0), Bytes(1)}, m \in BOOLEAN }
    \cup { [type |-> "websocket.connect"], [type |-> "http.disconnect"] }

\* What receive may return on a lifespan connection.
LifespanMessages ==
    { [type |-> t] :
        t \in {"lifespan.startup", "lifespan.shutdown", "lifespan.ping"} }

NoMessage == [type |-> "none"]

\* HttpResponseUpgrade: an HttpResponse with status_code 101.
HttpResponseUpgrade ==
    [upgrade |-> TRUE, streaming |-> FALSE, status |-> 101,
     content |-> <<>>, parts |-> <<>>]

HttpResponse(status, content) ==
    [upgrade |-> FALSE, streaming |-> FALSE, status |-> status,
     content |-> content, parts |-> <<>>]

StreamingHttpResponse(status, ps) ==
    [upgrade |-> FALSE, streaming |-> TRUE, status |-> status,
     content |-> <<>>, parts |-> ps]

\* What the middleware chain may hand back.
Responses ==
    { HttpResponseUpgrade }
    \cup { HttpResponse(200, b) : b \in Buffers }
    \cup { StreamingHttpResponse(200, ps) : ps \in SeqsUpTo(Buffers, MaxParts) }

\* create_request's error_response: HttpResponseBadRequest(), no content.
HttpResponseBadRequest == HttpResponse(400, <<>>)

(***************************************************************************)
(* ASGIRequest.__init__: the method normalization.                         *)
(***************************************************************************)
\* key in d
Carries(d, key) == key \in DOMAIN d

SetItem(d, key, value) ==
    [k \in DOMAIN d \cup {key} |-> IF k = key THEN value ELSE d[k]]

SetDefault(d, key, value) ==
    IF Carries(d, key) THEN d ELSE SetItem(d, key, value)

\* A variant: the method is assigned whatever the scope holds.
ASGIRequestInitAlwaysGet(s) == SetItem(s, "method", "GET")

ASGIRequestInit(s) ==
    LET s1 == IF s.type = "websocket" THEN SetItem(s, "method", "GET") ELSE s
    IN  SetDefault(s1, "method", "GET")

(***************************************************************************)
(* chunk_bytes(data): the (chunk, last) pairs, in order.                   *)
(***************************************************************************)
RECURSIVE ChunksFrom(_, _, _)
ChunksFrom(data, position, size) ==
    IF position >= Len(data) THEN <<>>
    ELSE <<[chunk |-> Slice(data, position, position + size),
            last  |-> position + size >= Len(data)]>>
         \o ChunksFrom(data, position + size, size)

chunk_bytes(data, size) ==
    IF Len(data) = 0 THEN <<[chunk |-> data, last |-> TRUE]>>
    ELSE ChunksFrom(data, 0, size)

(***************************************************************************)
(* The frames send_response builds.                                        *)
(***************************************************************************)
\* A variant: the initial message carries the body type.
StartFrameAsBody(r) == [type |-> "http.response.body", status |-> r.status]

StartFrame(r) == [type |-> "http.response.start", status |-> r.status]

\* A variant: the streamer forwards chunk_bytes' "last" flag.
StreamChunkFrameUsesLast(c) ==
    [type |-> "http.response.body", body |-> c.chunk, more_body |-> ~c.last]

StreamChunkFrame(c) ==
    [type |-> "http.response.body", body |-> c.chunk, more_body |-> TRUE]

ClosingFrame == [type |-> "http.response.body"]

\* A variant: more_body given chunk_bytes' "last" flag, not its negation.
BufferedChunkFrameInverted(c) ==
    [type |-> "http.response.body", body |-> c.chunk, more_body |-> c.last]

BufferedChunkFrame(c) ==
    [type |-> "http.response.body", body |-> c.chunk, more_body |-> ~c.last]

\* A variant: the isinstance test left out.
IsUpgradeNever(r) == FALSE

IsUpgrade(r) == r.upgrade

\* The response iterator and the running chunk_bytes generator, moved on to
\* the next chunk to send; chunks is empty when the parts are exhausted.
Advance(ps, cs) ==
    IF Len(cs) > 0 THEN [parts |-> ps, chunks |-> cs]
    ELSE IF Len(ps) = 0 THEN [parts |-> <<>>, chunks |-> <<>>]
    ELSE [parts |-> Tail(ps), chunks |-> chunk_bytes(Head(ps), chunk_size)]

(***************************************************************************)
(* The connection: BaseASGIHandler.__call__.                               *)
(***************************************************************************)
ConnInit ==
    /\ scope0 \in Scopes
    /\ scope = scope0
    /\ chunk_size \in 1..MaxChunk
    /\ pc = "call"
    /\ error = "none"
    /\ nrecv = 0
    /\ message = NoMessage
    /\ lifespan_received = <<>>
    /\ body_file = <<>>
    /\ request = <<>>
    /\ dispatched = 0
    /\ response = <<>>
    /\ parts = <<>>
    /\ chunks = <<>>
    /\ sent = <<>>
    /\ closed = 0

\* __call__ up to its first await: the dispatch on scope['type'].
Call ==
    /\ pc = "call"
    /\ IF scope.type = "lifespan"
       THEN pc' = "lifespan_receive" /\ error' = error
       ELSE IF scope.type \notin {"http", "websocket"}
       THEN pc' = "raised" /\ error' = "ValueError"
       ELSE pc' = "read_body" /\ error' = error
    /\ UNCHANGED <<scope0, scope, chunk_size, nrecv, message,
                   lifespan_received, body_file, request, dispatched,
                   response, parts, chunks, sent, closed>>

\* A variant of the except clause: the aborted request is served all the same.
RequestAbortedServed == pc' = "serve"

\* except asgi.RequestAborted: return
RequestAborted == pc' = "done"

\* One pass of read_body's loop over a received message: a disconnect
\* raises RequestAborted, a body is appended to the buffer, and a message
\* without more_body = true ends the body.
read_body_step(buffer, msg) ==
    [aborted   |-> msg.type = "http.disconnect",
     body_file |-> IF Carries(msg, "body") THEN buffer \o msg.body
                                           ELSE buffer,
     more_body |-> Carries(msg, "more_body") /\ msg.more_body]

\* body_file = await self.read_body(receive), one receive at a time, under
\* try ... except asgi.RequestAborted: return
ReadBody ==
    /\ pc = "read_body"
    /\ nrecv < MaxRecv
    /\ \E msg \in RequestMessages :
         LET step == read_body_step(body_file, msg)
         IN  /\ message' = msg
             /\ nrecv' = nrecv + 1
             /\ IF step.aborted
                THEN /\ RequestAborted
                     /\ body_file' = body_file
                ELSE /\ body_file' = step.body_file
                     /\ pc' = IF step.more_body THEN "read_body" ELSE "serve"
    /\ UNCHANGED <<scope0, scope, chunk_size, error, lifespan_received,
                   request, dispatched, response, parts, chunks, sent, closed>>

\* request, error_response = self.create_request(transport, body_file).
\* ASGIRequest.__init__ normalizes the scope's method before the base class
\* parses the scope, which may fail (a path that does not decode).
Serve ==
    /\ pc = "serve"
    /\ scope' = ASGIRequestInit(scope)
    /\ \E parsed \in BOOLEAN :
         IF parsed
         THEN /\ request' = <<[method |-> scope'.method, body |-> body_file]>>
              /\ response' = response
              /\ pc' = "get_response"
         ELSE /\ request' = request
              /\ response' = <<HttpResponseBadRequest>>
              /\ pc' = "send_response"
    /\ UNCHANGED <<scope0, chunk_size, error, nrecv, message,
                   lifespan_received, body_file, dispatched, parts, chunks,
                   sent, closed>>

\* response = await self.get_response_async(request): the middleware chain
\* returns some finished response.
GetResponse ==
    /\ pc = "get_response"
    /\ dispatched' = dispatched + 1
    /\ \E r \in Responses : response' = <<r>>
    /\ pc' = "send_response"
    /\ UNCHANGED <<scope0, scope, chunk_size, error, nrecv, message,
                   lifespan_received, body_file, request, parts, chunks,
                   sent, closed>>

(***************************************************************************)
(* send_response(response, send).  Each action is one send call and the    *)
(* code behind it up to the next send call, or to the return.              *)
(***************************************************************************)
\* A variant of the last line: the response is left open.
ResponseCloseSkipped == closed' = closed /\ pc' = "done"

\* response.close(), the last statement, and the return to __call__,
\* which ends there.
ResponseClose == closed' = closed + 1 /\ pc' = "done"

\* if isinstance(response, HttpResponseUpgrade): return
UpgradeReturn == closed' = closed /\ pc' = "done"

SendResponseUpgrade ==
    /\ pc = "send_response"
    /\ IsUpgrade(response[1])
    /\ UpgradeReturn
    /\ UNCHANGED <<scope0, scope, chunk_size, error, nrecv, message,
                   lifespan_received, body_file, request, dispatched,
                   response, parts, chunks, sent>>

\* await send({'type': 'http.response.start', ...}), then on to the first
\* body frame: the iterator's first chunk, or chunk_bytes(response.content).
SendStart ==
    /\ pc = "send_response"
    /\ ~IsUpgrade(response[1])
    /\ sent' = Append(sent, StartFrame(response[1]))
    /\ IF response[1].streaming
       THEN LET it == Advance(response[1].parts, <<>>)
            IN  /\ parts' = it.parts
                /\ chunks' = it.chunks
                /\ pc' = IF Len(it.chunks) > 0 THEN "stream_chunk"
                                               ELSE "stream_final"
       ELSE /\ parts' = parts
            /\ chunks' = chunk_bytes(response[1].content, chunk_size)
            /\ pc' = "buffered_chunk"
    /\ UNCHANGED <<scope0, scope, chunk_size, error, nrecv, message,
                   lifespan_received, body_file, request, dispatched,
                   response, closed>>

\* for part in response: for chunk, _ in self.chunk_bytes(part): await send
SendStreamChunk ==
    /\ pc = "stream_chunk"
    /\ sent' = Append(sent, StreamChunkFrame(Head(chunks)))
    /\ LET it == Advance(parts, Tail(chunks))
       IN  /\ parts' = it.parts
           /\ chunks' = it.chunks
           /\ pc' = IF Len(it.chunks) > 0 THEN "stream_chunk"
                                          ELSE "stream_final"
    /\ UNCHANGED <<scope0, scope, chunk_size, error, nrecv, message,
                   lifespan_received, body_file, request, dispatched,
                   response, closed>>

\* await send({'type': 'http.response.body'}), then response.close()
SendStreamFinal ==
    /\ pc = "stream_final"
    /\ sent' = Append(sent, ClosingFrame)
    /\ ResponseClose
    /\ UNCHANGED <<scope0, scope, chunk_size, error, nrecv, message,
                   lifespan_received, body_file, request, dispatched,
                   response, parts, chunks>>

\* for chunk, last in self.chunk_bytes(response.content): await send;
\* after the last chunk, response.close()
SendBufferedChunk ==
    /\ pc = "buffered_chunk"
    /\ sent' = Append(sent, BufferedChunkFrame(Head(chunks)))
    /\ chunks' = Tail(chunks)
    /\ IF Len(chunks) > 1
       THEN pc' = "buffered_chunk" /\ closed' = closed
       ELSE ResponseClose
    /\ UNCHANGED <<scope0, scope, chunk_size, error, nrecv, message,
                   lifespan_received, body_file, request, dispatched,
                   response, parts>>

\* The message the coroutine passes to its next send call.
NextFrame ==
    CASE pc = "send_response"  -> StartFrame(response[1])
      [] pc = "stream_chunk"   -> StreamChunkFrame(Head(chunks))
      [] pc = "stream_final"   -> ClosingFrame
      [] pc = "buffered_chunk" -> BufferedChunkFrame(Head(chunks))

\* A send call of send_response raises (the transport is gone): the
\* exception leaves send_response and __call__; nothing below the call runs.
SendRaises ==
    /\ \/ pc = "send_response" /\ ~IsUpgrade(response[1])
       \/ pc \in {"stream_chunk", "stream_final", "buffered_chunk"}
    /\ sent' = Append(sent, NextFrame)
    /\ pc' = "raised"
    /\ error' = "SendError"
    /\ UNCHANGED <<scope0, scope, chunk_size, nrecv, message,
                   lifespan_received, body_file, request, dispatched,
                   response, parts, chunks, closed>>

(***************************************************************************)
(* handle_lifespan(transport): while True: receive, answer.                *)
(***************************************************************************)
\* A variant: every message is answered as a startup.
LifespanReplyAlwaysStartup(msg) == <<[type |-> "lifespan.startup.complete"]>>

\* The answer to a message: <<>> when the loop sends nothing for it.
LifespanReply(msg) ==
    IF msg.type = "lifespan.startup"
    THEN <<[type |-> "lifespan.startup.complete"]>>
    ELSE IF msg.type = "lifespan.shutdown"
    THEN <<[type |-> "lifespan.shutdown.complete"]>>
    ELSE <<>>

\* A variant: the loop ends once the shutdown is answered.
AfterLifespanSendReturns ==
    pc' = IF message.type = "lifespan.shutdown" THEN "done"
                                                ELSE "lifespan_receive"

\* The end of the loop body: back to while True.
AfterLifespanSend == pc' = "lifespan_receive"

\* message = await transport.receive(); a message that needs no answer
\* leads straight back to the receive.
LifespanReceive ==
    /\ pc = "lifespan_receive"
    /\ nrecv < MaxRecv
    /\ \E msg \in LifespanMessages :
         /\ message' = msg
         /\ lifespan_received' = Append(lifespan_received, msg)
         /\ pc' = IF Len(LifespanReply(msg)) > 0 THEN "lifespan_send"
                                                 ELSE "lifespan_receive"
    /\ nrecv' = nrecv + 1
    /\ UNCHANGED <<scope0, scope, chunk_size, error, body_file, request,
                   dispatched, response, parts, chunks, sent, closed>>

\* await transport.send({'type': 'lifespan.<...>.complete'})
LifespanSend ==
    /\ pc = "lifespan_send"
    /\ sent' = sent \o LifespanReply(message)
    /\ AfterLifespanSend
    /\ UNCHANGED <<scope0, scope, chunk_size, error, nrecv, message,
                   lifespan_received, body_file, request, dispatched,
                   response, parts, chunks, closed>>

\* The send call raises: the exception leaves the loop and __call__.
LifespanSendRaises ==
    /\ pc = "lifespan_send"
    /\ sent' = sent \o LifespanReply(message)
    /\ pc' = "raised"
    /\ error' = "SendError"
    /\ UNCHANGED <<scope0, scope, chunk_size, nrecv, message,
                   lifespan_received, body_file, request, dispatched,
                   response, parts, chunks, closed>>

\* The handler object before load_middleware has run.
LoadIdle ==
    /\ MIDDLEWARE = <<>>
    /\ lm_pc = "idle"
    /\ lm_error = "none"
    /\ lm_todo = <<>>
    /\ handler = <<>>
    /\ loads = 0
    /\ is_async = TRUE
    /\ _view_middleware = <<>>
    /\ _template_response_middleware = <<>>
    /\ _exception_middleware = <<>>
    /\ _middleware_chain = <<>>

\* No request is being dispatched.
DispIdle ==
    /\ d_pc = "idle"
    /\ d_view_async = FALSE
    /\ d_response = "None"
    /\ d_error = "none"
    /\ d_i = 1
    /\ d_from = "none"
    /\ running = <<>>
    /\ others = 0
    /\ view_calls = <<>>
    /\ exec_called = FALSE
    /\ recoveries = <<>>
    /\ exc_calls = <<>>
    /\ template_calls = <<>>
    /\ render_called = FALSE

Init == ConnInit /\ LoadIdle /\ DispIdle

Next ==
    \/ Call /\ UNCHANGED <<load_vars, disp_vars>>
    \/ ReadBody /\ UNCHANGED <<load_vars, disp_vars>>
    \/ Serve /\ UNCHANGED <<load_vars, disp_vars>>
    \/ GetResponse /\ UNCHANGED <<load_vars, disp_vars>>
    \/ SendResponseUpgrade /\ UNCHANGED <<load_vars, disp_vars>>
    \/ SendStart /\ UNCHANGED <<load_vars, disp_vars>>
    \/ SendStreamChunk /\ UNCHANGED <<load_vars, disp_vars>>
    \/ SendStreamFinal /\ UNCHANGED <<load_vars, disp_vars>>
    \/ SendBufferedChunk /\ UNCHANGED <<load_vars, disp_vars>>
    \/ SendRaises /\ UNCHANGED <<load_vars, disp_vars>>
    \/ LifespanReceive /\ UNCHANGED <<load_vars, disp_vars>>
    \/ LifespanSend /\ UNCHANGED <<load_vars, disp_vars>>
    \/ LifespanSendRaises /\ UNCHANGED <<load_vars, disp_vars>>

Spec == Init /\ [][Next]_vars

(***************************************************************************)
(* load_middleware(is_async).  settings.MIDDLEWARE is a list of dotted     *)
(* paths; what a path imports to decides what the loop does with it.       *)
(***************************************************************************)
Class(importable, async_capable, init, process_view, template, exception) ==
    [importable |-> importable, async_capable |-> async_capable,
     init |-> init, process_view |-> process_view,
     process_template_response |-> template, process_exception |-> exception]

\* The middleware classes of the model: what import_string(path) finds,
\* whether the class sets async_capable, what middleware(handler) does
\* ("instance", "None" or "MiddlewareNotUsed"), and the hooks of the
\* instance (process_view: "absent", "coroutine" or a plain "function").
Classes ==
    [ Plain       |-> Class(TRUE, TRUE, "instance", "absent", FALSE, FALSE),
      Hooks       |-> Class(TRUE, TRUE, "instance", "coroutine", TRUE, TRUE),
      View        |-> Class(TRUE, TRUE, "instance", "coroutine", FALSE, FALSE),
      SyncView    |-> Class(TRUE, TRUE, "instance", "function", TRUE, TRUE),
      NotUsed     |-> Class(TRUE, TRUE, "MiddlewareNotUsed", "coroutine",
                            TRUE, TRUE),
      Factory     |-> Class(TRUE, TRUE, "None", "absent", FALSE, FALSE),
      Sync        |-> Class(TRUE, FALSE, "instance", "coroutine", TRUE, TRUE),
      SyncNotUsed |-> Class(TRUE, FALSE, "MiddlewareNotUsed", "absent",
                            FALSE, FALSE),
      Missing     |-> Class(FALSE, FALSE, "instance", "absent", FALSE, FALSE) ]

Paths == DOMAIN Classes

\* A variant: the loop runs over settings.MIDDLEWARE in configured order.
InConfiguredOrder(n) == [k \in 1..n |-> k]

\* reversed(range(1, n + 1)): the positions of settings.MIDDLEWARE, last first
RECURSIVE Reversed(_)
Reversed(n) == IF n = 0 THEN <<>> ELSE <<n>> \o Reversed(n - 1)

\* convert_exception_to_response(f): the layer f behind the converter
convert_exception_to_response(f) == [layer |-> f, converted |-> TRUE]

\* self._get_response_async, the innermost layer
CoreLayer == 0

\* A variant: MiddlewareNotUsed is not caught.
MiddlewareOutcomeNotUsedRaises(c) ==
    IF ~c.importable THEN "ImportError"
    ELSE IF ~c.async_capable THEN "RuntimeError"
    ELSE IF c.init = "MiddlewareNotUsed" THEN "MiddlewareNotUsed"
    ELSE IF c.init = "None" THEN "ImproperlyConfigured"
    ELSE IF c.process_view = "function" THEN "ImproperlyConfigured"
    ELSE "wrap"

\* A variant: a class whose instantiation raises MiddlewareNotUsed is wrapped.
MiddlewareOutcomeNotUsedWraps(c) ==
    IF ~c.importable THEN "ImportError"
    ELSE IF ~c.async_capable THEN "RuntimeError"
    ELSE IF c.init = "MiddlewareNotUsed" THEN "wrap"
    ELSE IF c.init = "None" THEN "ImproperlyConfigured"
    ELSE IF c.process_view = "function" THEN "ImproperlyConfigured"
    ELSE "wrap"

\* A variant: the class is instantiated before async_capable is looked at.
MiddlewareOutcomeInstantiatesFirst(c) ==
    IF ~c.importable THEN "ImportError"
    ELSE IF c.init = "MiddlewareNotUsed" THEN "continue"
    ELSE IF ~c.async_capable THEN "RuntimeError"
    ELSE IF c.init = "None" THEN "ImproperlyConfigured"
    ELSE IF c.process_view = "function" THEN "ImproperlyConfigured"
    ELSE "wrap"

\* What one pass of the loop does with a class: the exception it raises,
\* "continue" (MiddlewareNotUsed caught), or "wrap".
MiddlewareOutcome(c) ==
    IF ~c.importable THEN "ImportError"
    ELSE IF ~c.async_capable THEN "RuntimeError"
    ELSE IF c.init = "MiddlewareNotUsed" THEN "continue"
    ELSE IF c.init = "None" THEN "ImproperlyConfigured"
    ELSE IF c.process_view = "function" THEN "ImproperlyConfigured"
    ELSE "wrap"

\* The call of load_middleware up to the loop: the three lists are emptied,
\* a call with is_async false raises, the core is wrapped.
LoadStart ==
    /\ lm_pc \in {"idle", "returned", "raised"}
    /\ loads < MaxLoads
    /\ loads' = loads + 1
    /\ _view_middleware' = <<>>
    /\ _template_response_middleware' = <<>>
    /\ _exception_middleware' = <<>>
    /\ \E a \in BOOLEAN :
         /\ is_async' = a
         /\ IF ~a
            THEN /\ lm_pc' = "raised"
                 /\ lm_error' = "ImproperlyConfigured"
                 /\ UNCHANGED <<handler, lm_todo>>
            ELSE /\ lm_pc' = "loop"
                 /\ lm_error' = "none"
                 /\ handler' = <<convert_exception_to_response(CoreLayer)>>
                 /\ lm_todo' = Reversed(Len(MIDDLEWARE))
    /\ UNCHANGED <<MIDDLEWARE, _middleware_chain>>

\* One pass of for middleware_path in reversed(settings.MIDDLEWARE).
\* A middleware instance is named by its position in settings.MIDDLEWARE,
\* a hook by its instance; the instance's next is the handler below it.
LoadMiddleware ==
    /\ lm_pc = "loop"
    /\ Len(lm_todo) > 0
    /\ LET i == Head(lm_todo)
           c == Classes[MIDDLEWARE[i]]
           outcome == MiddlewareOutcome(c)
       IN  IF outcome = "wrap"
           THEN /\ _view_middleware' =
                     IF c.process_view # "absent"
                     THEN <<i>> \o _view_middleware
                     ELSE _view_middleware
                /\ _template_response_middleware' =
                     IF c.process_template_response
                     THEN Append(_template_response_middleware, i)
                     ELSE _template_response_middleware
                /\ _exception_middleware' =
                     IF c.process_exception
                     THEN Append(_exception_middleware, i)
                     ELSE _exception_middleware
                /\ handler' = <<convert_exception_to_response(i)>> \o handler
                /\ lm_todo' = Tail(lm_todo)
                /\ UNCHANGED <<lm_pc, lm_error>>
           ELSE IF outcome = "continue"
           THEN /\ lm_todo' = Tail(lm_todo)
                /\ UNCHANGED <<lm_pc, lm_error, handler, _view_middleware,
                               _template_response_middleware,
                               _exception_middleware>>
           ELSE /\ lm_pc' = "raised"
                /\ lm_error' = outcome
                /\ UNCHANGED <<lm_todo, handler, _view_middleware,
                               _template_response_middleware,
                               _exception_middleware>>
    /\ UNCHANGED <<MIDDLEWARE, loads, is_async, _middleware_chain>>

\* self._middleware_chain = handler, after the loop
LoadPublish ==
    /\ lm_pc = "loop"
    /\ Len(lm_todo) = 0
    /\ _middleware_chain' = <<handler>>
    /\ lm_pc' = "returned"
    /\ UNCHANGED <<MIDDLEWARE, lm_error, lm_todo, handler, loads, is_async,
                   _view_middleware, _template_response_middleware,
                   _exception_middleware>>

\* A handler object with some settings.MIDDLEWARE, before load_middleware.
LoadInit ==
    /\ MIDDLEWARE \in SeqsUpTo(Paths, MaxMiddleware)
    /\ lm_pc = "idle"
    /\ lm_error = "none"
    /\ lm_todo = <<>>
    /\ handler = <<>>
    /\ loads = 0
    /\ is_async = TRUE
    /\ _view_middleware = <<>>
    /\ _template_response_middleware = <<>>
    /\ _exception_middleware = <<>>
    /\ _middleware_chain = <<>>

\* No connection is open.
ConnIdle ==
    /\ ConnInit
    /\ scope0 = [type |-> "http", method |-> "GET"]
    /\ chunk_size = 1

InitLoad == LoadInit /\ ConnIdle /\ DispIdle

NextLoad ==
    \/ LoadStart /\ UNCHANGED <<conn_vars, disp_vars>>
    \/ LoadMiddleware /\ UNCHANGED <<conn_vars, disp_vars>>
    \/ LoadPublish /\ UNCHANGED <<conn_vars, disp_vars>>

SpecLoad == InitLoad /\ [][NextLoad]_vars

(***************************************************************************)
(* _get_response_async(request): one request through the dispatcher.  A    *)
(* value is known by what the dispatcher tests of it: "None", "Falsy" (not *)
(* None, false in a boolean test), "Response" (a response without render), *)
(* "Template" (a response with a callable render), "Coroutine" (a          *)
(* coroutine that was not awaited).                                        *)
(***************************************************************************)
Values == {"None", "Falsy", "Response", "Template", "Coroutine"}

\* what a call of a hook, of the view or of render does: a value it
\* returns, or "raise"
Outcomes == Values \cup {"raise"}

\* if response:
Truthy(v) == v \notin {"None", "Falsy"}

\* hasattr(response, 'render') and callable(response.render)
Deferred(v) == v = "Template"

\* BaseHandler.check_response passes the value: it is neither None nor a
\* coroutine
check_response(v) == v \notin {"None", "Coroutine"}

\* run_in_executor(None, ...): the call runs on a thread of the pool
sync_to_async_view == "pool"

\* return func(*args, **kwargs): the call runs where the coroutine runs
sync_to_async == "loop"

\* sync_executor = staticmethod(sync_to_async)
sync_executor == sync_to_async

\* the event loop thread is not inside a blocking call
EventLoopFree == \A k \in 1..Len(running) : running[k].thread # "loop"

\* A variant: every statement is inside a try block.
CaughtEverywhere(stage) == TRUE

\* the statements inside try: ... except Exception
Caught(stage) == stage \in {"exec", "render"}

\* A variant: the loop over the view hooks has no break.
BreaksNever(v) == FALSE

\* if response: break
Breaks(v) == Truthy(v)

\* if response is None: the view is called; else check_response is next
AfterViewHooks(v) == IF v = "None" THEN "exec" ELSE "check"

\* A variant: what follows a recovery is the same after both try blocks.
AfterRecoveryAlike(from) == "check"

\* what follows the except block when process_exception_by_middleware
\* returned a response: check_response after the view's, the coroutine
\* test after render's
AfterRecovery(from) == IF from = "exec" THEN "check" ELSE "final"

\* the coroutine goes on at pcnew with response = v
Goto(pcnew, v, inew, run) ==
    /\ d_pc' = pcnew
    /\ d_response' = v
    /\ d_i' = inew
    /\ running' = run
    /\ UNCHANGED <<d_error, d_from, recoveries, exc_calls>>

\* the exception e leaves _get_response_async
Propagate(e, v) ==
    /\ d_pc' = "raised"
    /\ d_error' = e
    /\ d_response' = v
    /\ running' = <<>>
    /\ UNCHANGED <<d_i, d_from, recoveries, exc_calls>>

\* except Exception as e: response = await self.sync_executor(
\*     self.process_exception_by_middleware, e, request)
Recover(stage, e, v) ==
    /\ d_pc' = "recover"
    /\ d_error' = e
    /\ d_response' = v
    /\ d_from' = stage
    /\ d_i' = 1
    /\ running' = <<[step |-> "process_exception", thread |-> sync_executor]>>
    /\ recoveries' = Append(recoveries, stage)
    /\ exc_calls' = <<>>

\* the exception e is raised by a statement of the given stage
Raise(stage, e, v) ==
    IF Caught(stage) THEN Recover(stage, e, v) ELSE Propagate(e, v)

\* response = None; callback, ... = self.resolve_request(request)
Resolve ==
    /\ d_pc = "idle"
    /\ _middleware_chain # <<>>
    /\ \E out \in {"coroutine", "function", "raise"} :
         IF out = "raise"
         THEN /\ Raise("resolve", "Resolver404", "None")
              /\ UNCHANGED d_view_async
         ELSE /\ Goto(IF Len(_view_middleware) > 0
                      THEN "view_hooks" ELSE AfterViewHooks("None"),
                      "None", 1, <<>>)
              /\ d_view_async' = (out = "coroutine")
    /\ UNCHANGED <<others, view_calls, exec_called, template_calls,
                   render_called>>

\* one pass of for middleware_method in self._view_middleware
ViewHook ==
    /\ d_pc = "view_hooks"
    /\ \E out \in Outcomes :
         /\ view_calls' = Append(view_calls,
                [hook |-> _view_middleware[d_i], result |-> out])
         /\ IF out = "raise"
            THEN Raise("view_hooks", "ViewHookError", d_response)
            ELSE Goto(IF Breaks(out) \/ d_i = Len(_view_middleware)
                      THEN AfterViewHooks(out) ELSE "view_hooks",
                      out, d_i + 1, <<>>)
    /\ UNCHANGED <<d_view_async, others, exec_called, template_calls,
                   render_called>>

\* response = await wrapped_callback(request, ...): a coroutine function
Exec ==
    /\ d_pc = "exec"
    /\ d_view_async
    /\ exec_called' = TRUE
    /\ \E out \in Outcomes :
         IF out = "raise"
         THEN Raise("exec", "ViewError", d_response)
         ELSE Goto("check", out, d_i, <<>>)
    /\ UNCHANGED <<d_view_async, others, view_calls, template_calls,
                   render_called>>

\* await sync_to_async_view(wrapped_callback, ...): the view starts
ExecSubmit ==
    /\ d_pc = "exec"
    /\ ~d_view_async
    /\ exec_called' = TRUE
    /\ Goto("exec_running", d_response, d_i,
            <<[step |-> "view", thread |-> sync_to_async_view]>>)
    /\ UNCHANGED <<d_view_async, others, view_calls, template_calls,
                   render_called>>

\* the view started by sync_to_async_view ends
ExecComplete ==
    /\ d_pc = "exec_running"
    /\ \E out \in Outcomes :
         IF out = "raise"
         THEN Raise("exec", "ViewError", d_response)
         ELSE Goto("check", out, d_i, <<>>)
    /\ UNCHANGED <<d_view_async, others, view_calls, exec_called,
                   template_calls, render_called>>

\* one pass of the loop of process_exception_by_middleware over
\* self._exception_middleware: if response: return response
ExceptionHook ==
    /\ d_pc = "recover"
    /\ d_i <= Len(_exception_middleware)
    /\ exc_calls' = Append(exc_calls, _exception_middleware[d_i])
    /\ \E out \in Outcomes :
         IF out = "raise"
         THEN /\ d_pc' = "raised"
              /\ d_error' = "ExceptionHookError"
              /\ running' = <<>>
              /\ UNCHANGED <<d_response, d_i>>
         ELSE IF Truthy(out)
         THEN /\ d_pc' = AfterRecovery(d_from)
              /\ d_error' = "none"
              /\ d_response' = out
              /\ running' = <<>>
              /\ UNCHANGED d_i
         ELSE /\ d_i' = d_i + 1
              /\ UNCHANGED <<d_pc, d_error, d_response, running>>
    /\ UNCHANGED <<d_view_async, d_from, others, view_calls, exec_called,
                   recoveries, template_calls, render_called>>

\* process_exception_by_middleware returns None; if response is None: raise
RecoverNone ==
    /\ d_pc = "recover"
    /\ d_i > Len(_exception_middleware)
    /\ d_pc' = "raised"
    /\ d_response' = "None"
    /\ running' = <<>>
    /\ UNCHANGED <<d_view_async, d_error, d_i, d_from, others, view_calls,
                   exec_called, recoveries, exc_calls, template_calls,
                   render_called>>

\* self.check_response(response, callback), and the test for render
CheckResponse ==
    /\ d_pc = "check"
    /\ IF ~check_response(d_response)
       THEN Raise("check", "ValueError", d_response)
       ELSE IF Deferred(d_response)
       THEN Goto(IF Len(_template_response_middleware) > 0
                 THEN "template_hooks" ELSE "render", d_response, 1, <<>>)
       ELSE Goto("final", d_response, d_i, <<>>)
    /\ UNCHANGED <<d_view_async, others, view_calls, exec_called,
                   template_calls, render_called>>

\* one pass of for middleware_method in self._template_response_middleware
TemplateHook ==
    /\ d_pc = "template_hooks"
    /\ template_calls' =
          Append(template_calls, _template_response_middleware[d_i])
    /\ \E out \in Outcomes :
         IF out = "raise"
         THEN Raise("template_hooks", "TemplateHookError", d_response)
         ELSE IF ~check_response(out)
         THEN Raise("template_hooks", "ValueError", out)
         ELSE Goto(IF d_i = Len(_template_response_middleware)
                   THEN "render" ELSE "template_hooks", out, d_i + 1, <<>>)
    /\ UNCHANGED <<d_view_async, others, view_calls, exec_called,
                   render_called>>

\* try: if asyncio.iscoroutinefunction(response.render): response = await
\* response.render().  Reading response.render of a value without one
\* raises AttributeError inside the try block.
Render ==
    /\ d_pc = "render"
    /\ IF ~Deferred(d_response)
       THEN /\ Raise("render", "AttributeError", d_response)
            /\ UNCHANGED render_called
       ELSE /\ render_called' = TRUE
            /\ \E out \in Outcomes :
                 IF out = "raise"
                 THEN Raise("render", "RenderError", d_response)
                 ELSE Goto("final", out, d_i, <<>>)
    /\ UNCHANGED <<d_view_async, others, view_calls, exec_called,
                   template_calls>>

\* else: response = await self.sync_executor(response.render): it starts
RenderSubmit ==
    /\ d_pc = "render"
    /\ Deferred(d_response)
    /\ render_called' = TRUE
    /\ Goto("render_running", d_response, d_i,
            <<[step |-> "render", thread |-> sync_executor]>>)
    /\ UNCHANGED <<d_view_async, others, view_calls, exec_called,
                   template_calls>>

\* the render started by sync_executor ends
RenderComplete ==
    /\ d_pc = "render_running"
    /\ \E out \in Outcomes :
         IF out = "raise"
         THEN Raise("render", "RenderError", d_response)
         ELSE Goto("final", out, d_i, <<>>)
    /\ UNCHANGED <<d_view_async, others, view_calls, exec_called,
                   template_calls, render_called>>

\* if asyncio.iscoroutine(response): raise RuntimeError; return response
Final ==
    /\ d_pc = "final"
    /\ IF d_response = "Coroutine"
       THEN Raise("final", "RuntimeError", d_response)
       ELSE /\ d_pc' = "returned"
            /\ UNCHANGED <<d_response, d_error, d_i, d_from, running,
                           recoveries, exc_calls>>
    /\ UNCHANGED <<d_view_async, others, view_calls, exec_called,
                   template_calls, render_called>>

\* The event loop runs a step of another connection's coroutine.
OtherConnection ==
    /\ EventLoopFree
    /\ others < MaxOther
    /\ others' = others + 1
    /\ UNCHANGED <<d_pc, d_view_async, d_response, d_error, d_i, d_from,
                   running, view_calls, exec_called, recoveries, exc_calls,
                   template_calls, render_called>>

\* the settings.MIDDLEWARE entries of the served configurations
ServingPaths == {"Plain", "Hooks", "View"}

InitDispatch ==
    /\ InitLoad
    /\ \A k \in 1..Len(MIDDLEWARE) : MIDDLEWARE[k] \in ServingPaths

\* the handler is loaded once, then dispatches one request
NextDispatch ==
    \/ LoadStart /\ loads = 0 /\ UNCHANGED <<conn_vars, disp_vars>>
    \/ LoadMiddleware /\ UNCHANGED <<conn_vars, disp_vars>>
    \/ LoadPublish /\ UNCHANGED <<conn_vars, disp_vars>>
    \/ Resolve /\ UNCHANGED <<conn_vars, load_vars>>
    \/ ViewHook /\ UNCHANGED <<conn_vars, load_vars>>
    \/ Exec /\ UNCHANGED <<conn_vars, load_vars>>
    \/ ExecSubmit /\ UNCHANGED <<conn_vars, load_vars>>
    \/ ExecComplete /\ UNCHANGED <<conn_vars, load_vars>>
    \/ ExceptionHook /\ UNCHANGED <<conn_vars, load_vars>>
    \/ RecoverNone /\ UNCHANGED <<conn_vars, load_vars>>
    \/ CheckResponse /\ UNCHANGED <<conn_vars, load_vars>>
    \/ TemplateHook /\ UNCHANGED <<conn_vars, load_vars>>
    \/ Render /\ UNCHANGED <<conn_vars, load_vars>>
    \/ RenderSubmit /\ UNCHANGED <<conn_vars, load_vars>>
    \/ RenderComplete /\ UNCHANGED <<conn_vars, load_vars>>
    \/ Final /\ UNCHANGED <<conn_vars, load_vars>>
    \/ OtherConnection /\ UNCHANGED <<conn_vars, load_vars>>

SpecDispatch == InitDispatch /\ [][NextDispatch]_vars

(***************************************************************************)
(* Properties of the connection.                                           *)
(***************************************************************************)
\* send_response has returned to __call__ with the response r
Returned(r) == pc = "done" /\ response = <<r>>

HandedOver == response # <<>>

RECURSIVE AllChunks(_, _)
\* the chunks of all parts, in order
AllChunks(ps, size) ==
    IF Len(ps) = 0 THEN <<>>
    ELSE chunk_bytes(Head(ps), size) \o AllChunks(Tail(ps), size)

IsBody(f) == f.type = "http.response.body"

\* the N chunk frames after the start frame, each carrying more_body = true
ChunkFramesSent(cs) ==
    \A i \in 1..Len(cs) :
        LET f == sent[i + 1]
        IN  /\ IsBody(f)
            /\ Carries(f, "body") /\ f.body = cs[i].chunk
            /\ Carries(f, "more_body") /\ f.more_body = TRUE

CeilDiv(a, b) == (a + b - 1) \div b

\* the frames after the start frame are n body frames, all but the last of
\* length C with more_body = true, the last with more_body = false and the
\* rest of the S bytes
BufferedFramesSent(n, S, C) ==
    /\ Len(sent) = n + 1
    /\ \A i \in 1..n :
        LET f == sent[i + 1]
        IN  /\ IsBody(f)
            /\ Carries(f, "body") /\ Carries(f, "more_body")
            /\ f.more_body = (i < n)
            /\ Len(f.body) = IF i < n THEN C ELSE S - (n - 1) * C
            /\ Len(f.body) <= C

\* C2 as stated: once send_response has returned for a buffered response of
\* size S >= 0 with chunk size C, exactly ceil(S/C) body frames were sent.
C2_BufferedCeilFrames ==
    \A r \in Responses \cup {HttpResponseBadRequest} :
        Returned(r) /\ ~r.streaming /\ ~r.upgrade =>
            BufferedFramesSent(CeilDiv(Len(r.content), chunk_size),
                               Len(r.content), chunk_size)

\* C2 amended: once send_response has returned for a buffered response of
\* size S with chunk size C, exactly ceil(S/C) body frames were sent when
\* S >= 1 and exactly one, empty, when S = 0; every frame but the last has
\* more_body = true and length C, the last has more_body = false and at
\* most C bytes.
C2_BufferedFrames ==
    \A r \in Responses \cup {HttpResponseBadRequest} :
        Returned(r) /\ ~r.streaming /\ ~r.upgrade =>
            LET S == Len(r.content)
                n == IF S = 0 THEN 1 ELSE CeilDiv(S, chunk_size)
            IN  BufferedFramesSent(n, S, chunk_size)

\* a buffer that is cut into a full chunk and a shorter last one
C2_Witness ==
    /\ pc = "done"
    /\ HandedOver /\ ~response[1].streaming /\ ~response[1].upgrade
    /\ Len(response[1].content) > chunk_size
    /\ Len(response[1].content) < 2 * chunk_size
    /\ Len(sent) = 3

\* C3: on an http or websocket connection the first message sent is the
\* start frame of a response that is not the upgrade sentinel, every later
\* message is a body frame, and once send_response has returned for such a
\* response at least one body frame has followed the start frame.
C3_OneStartFrameFirst ==
    /\ Len(sent) > 0 /\ scope0.type # "lifespan" =>
        /\ HandedOver /\ ~response[1].upgrade
        /\ sent[1] = [type |-> "http.response.start",
                      status |-> response[1].status]
        /\ \A i \in 2..Len(sent) : IsBody(sent[i])
    /\ pc = "done" /\ HandedOver /\ ~response[1].upgrade =>
        Len(sent) >= 2

\* a streaming response sent to the end
C3_Witness ==
    /\ pc = "done"
    /\ HandedOver /\ response[1].streaming
    /\ Len(sent) >= 3
    /\ sent[1].type = "http.response.start"

\* C4: for the upgrade sentinel no send call is ever made.
C4_UpgradeSendsNothing ==
    HandedOver /\ response[1].status = 101 => Len(sent) = 0

\* send_response has returned for the upgrade sentinel
C4_Witness == Returned(HttpResponseUpgrade) /\ scope0.type = "websocket"

\* send_response has ended, by a return or by an exception
SendResponseEnded == HandedOver /\ pc \in {"done", "raised"}

\* C5 as stated: on every path by which send_response ends,
\* response.close() has been called exactly once.
C5_ClosedOnEveryPath == SendResponseEnded => closed = 1

\* C5 amended: response.close() is called exactly once when send_response
\* returns after emitting a response that is not the upgrade sentinel, and
\* is not called at all on the upgrade-sentinel path, while frames are
\* still to be sent, or when a send call raises.
C5_ClosedAfterEmission ==
    HandedOver =>
        closed = IF pc = "done" /\ ~response[1].upgrade THEN 1 ELSE 0

\* a response emitted to its last frame and closed
C5_Witness ==
    /\ pc = "done"
    /\ HandedOver /\ ~response[1].upgrade
    /\ Len(sent) >= 3
    /\ closed = 1

\* C6: after a disconnect arrived during the body read, __call__ has
\* returned without an exception, nothing was sent, no Request was built
\* and the middleware chain was not called.
C6_AbortedRequestDropped ==
    message.type = "http.disconnect" =>
        /\ pc = "done"
        /\ error = "none"
        /\ Len(sent) = 0
        /\ request = <<>>
        /\ dispatched = 0
        /\ response = <<>>

\* a disconnect after a first part of the body
C6_Witness ==
    /\ message.type = "http.disconnect"
    /\ nrecv >= 2
    /\ Len(body_file) > 0
    /\ pc = "done"

\* C7 as stated: once the Request is built, a scope that carried a method
\* has the same method, and a scope that carried none has 'GET'.
C7_MethodNeverOverwritten ==
    request # <<>> =>
        scope.method = IF Carries(scope0, "method") THEN scope0.method
                                                    ELSE "GET"

\* C7 amended: once the Request is built, an http scope that carried a
\* method has the same method, a scope that carried none has 'GET', and a
\* websocket scope has 'GET' whatever it carried; the Request's method is
\* the scope's.
C7_MethodNormalized ==
    request # <<>> =>
        /\ scope.method =
              IF scope0.type = "websocket" THEN "GET"
              ELSE IF Carries(scope0, "method") THEN scope0.method
              ELSE "GET"
        /\ request[1].method = scope.method
        /\ scope.type = scope0.type

\* an http POST keeps its method
C7_Witness ==
    /\ request # <<>>
    /\ scope0 = [type |-> "http", method |-> "POST"]
    /\ scope.method = "POST"

\* the completion message the handshake prescribes for a message
Completion(msg) ==
    CASE msg.type = "lifespan.startup" ->
            <<[type |-> "lifespan.startup.complete"]>>
      [] msg.type = "lifespan.shutdown" ->
            <<[type |-> "lifespan.shutdown.complete"]>>
      [] OTHER -> <<>>

RECURSIVE Completions(_)
Completions(msgs) ==
    IF Len(msgs) = 0 THEN <<>>
    ELSE Completion(Head(msgs)) \o Completions(Tail(msgs))

\* the messages whose answer, if any, has been passed to send
Answered ==
    IF pc = "lifespan_send"
    THEN SubSeq(lifespan_received, 1, Len(lifespan_received) - 1)
    ELSE lifespan_received

\* C8: on a lifespan connection the messages sent are exactly the
\* completions of the startup and shutdown messages received, one each and
\* in arrival order, and a receive is made only when every message
\* received so far has its completion sent.
C8_LifespanAnswered ==
    /\ [](scope0.type = "lifespan" => sent = Completions(Answered))
    /\ [][lifespan_received' # lifespan_received =>
            sent = Completions(lifespan_received)]_vars

\* startup and shutdown answered, an unknown message in between
C8_Witness ==
    /\ pc = "lifespan_receive"
    /\ Len(lifespan_received) = 3
    /\ lifespan_received[1].type = "lifespan.startup"
    /\ lifespan_received[2].type = "lifespan.ping"
    /\ lifespan_received[3].type = "lifespan.shutdown"
    /\ Len(sent) = 2

\* C9: a lifespan connection never returns and never gets to the body
\* read, the Request, the middleware chain or send_response; a message that
\* is neither startup nor shutdown causes no send and leads back to the
\* receive, and so does the send of lifespan.shutdown.complete.
C9_LifespanLoopsForever ==
    /\ [](scope0.type = "lifespan" =>
            /\ pc \in {"call", "lifespan_receive", "lifespan_send", "raised"}
            /\ pc = "raised" => error = "SendError"
            /\ body_file = <<>> /\ request = <<>>
            /\ dispatched = 0 /\ response = <<>> /\ closed = 0
            /\ \A i \in 1..Len(sent) :
                 sent[i].type \in {"lifespan.startup.complete",
                                   "lifespan.shutdown.complete"})
    /\ [][/\ lifespan_received' # lifespan_received
          /\ message'.type \notin {"lifespan.startup", "lifespan.shutdown"}
          => sent' = sent /\ pc' = "lifespan_receive"]_vars
    /\ [][/\ pc = "lifespan_send"
          /\ message.type = "lifespan.shutdown"
          /\ error' = "none"
          /\ pc' # pc
          => pc' = "lifespan_receive"]_vars

\* a message received after the shutdown was answered
C9_Witness ==
    /\ pc = "lifespan_receive"
    /\ Len(lifespan_received) >= 2
    /\ lifespan_received[1].type = "lifespan.shutdown"
    /\ lifespan_received[2].type = "lifespan.ping"
    /\ Len(sent) = 1

(***************************************************************************)
(* Properties of load_middleware.                                          *)
(***************************************************************************)
\* the last load_middleware call has ended, by a return or an exception
LoadEnded == lm_pc \in {"returned", "raised"}

AllAsyncCapable ==
    \A i \in 1..Len(MIDDLEWARE) : Classes[MIDDLEWARE[i]].async_capable

\* the call returned and the chain it built is published
LoadSucceeded ==
    /\ lm_pc = "returned"
    /\ lm_error = "none"
    /\ _middleware_chain = <<handler>>
    /\ Len(handler) >= 1
    /\ handler[Len(handler)].layer = CoreLayer

\* C10 as stated: with every middleware async_capable,
\* load_middleware(is_async=True) raises nothing and publishes a chain.
C10_AsyncCapableListLoads ==
    LoadEnded /\ is_async /\ AllAsyncCapable => LoadSucceeded

\* every middleware is async_capable, its factory returns an instance or
\* raises MiddlewareNotUsed, and a process_view of the instance is a
\* coroutine function
AllUsable ==
    \A i \in 1..Len(MIDDLEWARE) :
        LET c == Classes[MIDDLEWARE[i]]
        IN  /\ c.importable
            /\ c.async_capable
            /\ c.init \in {"instance", "MiddlewareNotUsed"}
            /\ c.init = "instance" => c.process_view # "function"

\* C10 amended: with every middleware async_capable, no factory returning
\* None and no instance with a process_view that is not a coroutine
\* function, load_middleware(is_async=True) raises nothing and publishes a
\* chain that ends in the core handler.
C10_UsableListLoads ==
    /\ is_async /\ AllUsable => lm_error = "none"
    /\ LoadEnded /\ is_async /\ AllUsable => LoadSucceeded

\* a list of two, one of them not used, loaded
C10_Witness ==
    /\ LoadSucceeded
    /\ is_async
    /\ MIDDLEWARE = <<"Hooks", "NotUsed">>
    /\ Len(handler) = 2

\* some middleware of the list imports and does not set async_capable
HasSyncOnly ==
    \E i \in 1..Len(MIDDLEWARE) :
        Classes[MIDDLEWARE[i]].importable
        /\ ~Classes[MIDDLEWARE[i]].async_capable

\* C11 as stated: with a middleware that is not async_capable in the list,
\* load_middleware fails with the error kind of the other construction
\* failures, ImproperlyConfigured, and no chain is published.
C11_SyncOnlyIsImproperlyConfigured ==
    LoadEnded /\ HasSyncOnly =>
        /\ lm_pc = "raised"
        /\ lm_error = "ImproperlyConfigured"
        /\ _middleware_chain = <<>>

\* the loop passes the class without an error
Passes(c) ==
    /\ c.importable
    /\ c.async_capable
    /\ c.init # "None"
    /\ c.init = "instance" => c.process_view # "function"

\* the error a class that does not pass raises
FailureOf(c) ==
    IF ~c.importable THEN "ImportError"
    ELSE IF ~c.async_capable THEN "RuntimeError"
    ELSE "ImproperlyConfigured"

\* the last configured middleware that does not pass: the first the
\* reversed loop meets
LastFailing ==
    CHOOSE k \in 1..Len(MIDDLEWARE) :
        /\ ~Passes(Classes[MIDDLEWARE[k]])
        /\ \A j \in (k + 1)..Len(MIDDLEWARE) : Passes(Classes[MIDDLEWARE[j]])

\* C11 amended: with a middleware that is not async_capable in the list,
\* wherever it stands and whether or not its instantiation would raise
\* MiddlewareNotUsed, load_middleware fails and no chain is published at
\* any time; the error of a call with is_async true is RuntimeError when
\* that middleware is the first failing one the reversed loop meets, and
\* otherwise the error of the failing middleware configured after it; a
\* call with is_async false fails with ImproperlyConfigured.
C11_SyncOnlyFails ==
    HasSyncOnly =>
        /\ _middleware_chain = <<>>
        /\ lm_pc # "returned"
        /\ LoadEnded =>
            /\ lm_pc = "raised"
            /\ lm_error = IF is_async
                          THEN FailureOf(Classes[MIDDLEWARE[LastFailing]])
                          ELSE "ImproperlyConfigured"

\* the middleware that is not async_capable is met second, after one
\* layer is wrapped; its instantiation would have raised MiddlewareNotUsed
C11_Witness ==
    /\ MIDDLEWARE = <<"SyncNotUsed", "Plain">>
    /\ lm_pc = "raised"
    /\ lm_error = "RuntimeError"
    /\ Len(handler) = 2
    /\ _middleware_chain = <<>>

\* the three hook lists of the handler object
HookLists ==
    <<_view_middleware, _template_response_middleware, _exception_middleware>>

\* the elements of a sequence
Range(q) == {q[k] : k \in 1..Len(q)}

\* the middleware instances of a handler: its layers but the core
InstancesOf(h) == Range([k \in 1..Len(h) |-> h[k].layer]) \ {CoreLayer}

\* C15 as stated: whenever _middleware_chain is set, the three hook lists
\* hold exactly the hooks of the middleware of that chain; while the first
\* load_middleware call of a handler is in its loop, or has raised, the
\* chain is not set.
C15_ChainSetWithItsHooks ==
    /\ _middleware_chain # <<>> =>
         LET ms == InstancesOf(_middleware_chain[1])
         IN  /\ Range(_view_middleware) =
                  {i \in ms : Classes[MIDDLEWARE[i]].process_view # "absent"}
             /\ Range(_template_response_middleware) =
                  {i \in ms : Classes[MIDDLEWARE[i]].process_template_response}
             /\ Range(_exception_middleware) =
                  {i \in ms : Classes[MIDDLEWARE[i]].process_exception}
    /\ loads <= 1 /\ lm_pc \in {"loop", "raised"} => _middleware_chain = <<>>

\* C16 as stated: once _middleware_chain is set, no step, a later
\* load_middleware call that fails included, changes the chain or any of
\* the three hook lists.
C16_PublishedNeverChanges ==
    [][_middleware_chain # <<>> =>
          UNCHANGED <<_middleware_chain, HookLists>>]_vars

RECURSIVE Ascending(_)
\* a set of positions, lowest first
Ascending(S) ==
    IF S = {} THEN <<>>
    ELSE LET m == CHOOSE x \in S : \A y \in S : x <= y
         IN  <<m>> \o Ascending(S \ {m})

RECURSIVE Descending(_)
\* a set of positions, highest first
Descending(S) ==
    IF S = {} THEN <<>>
    ELSE LET m == CHOOSE x \in S : \A y \in S : x >= y
         IN  <<m>> \o Descending(S \ {m})

\* the positions the loop has passed
Visited == (Len(lm_todo) + 1)..Len(MIDDLEWARE)

\* the positions the loop has passed whose class gave an instance
Instantiated ==
    {i \in Visited : Classes[MIDDLEWARE[i]].init = "instance"}

\* C17: load_middleware(is_async=True) goes through settings.MIDDLEWARE from
\* the last entry to the first; each instance is given the handler
\* accumulated so far as its next layer, so the layers of the handler are
\* the instances in configured order, the first outermost, and then the
\* core; every layer, the core included, is behind
\* convert_exception_to_response; _view_middleware holds the view hooks in
\* configured order, _template_response_middleware and
\* _exception_middleware hold theirs in wrap order, last configured first;
\* the chain published is that handler.
C17_WrapOrder ==
    /\ lm_pc \in {"loop", "returned"} =>
        /\ lm_todo = Reversed(Len(lm_todo))
        /\ [k \in 1..Len(handler) |-> handler[k].layer] =
              Ascending(Instantiated) \o <<CoreLayer>>
        /\ \A k \in 1..Len(handler) :
              handler[k] = convert_exception_to_response(handler[k].layer)
        /\ _view_middleware =
              Ascending({i \in Instantiated :
                  Classes[MIDDLEWARE[i]].process_view # "absent"})
        /\ _template_response_middleware =
              Descending({i \in Instantiated :
                  Classes[MIDDLEWARE[i]].process_template_response})
        /\ _exception_middleware =
              Descending({i \in Instantiated :
                  Classes[MIDDLEWARE[i]].process_exception})
    /\ lm_pc = "returned" => _middleware_chain = <<handler>>

\* two middleware with all three hooks are loaded
C17_Witness ==
    /\ MIDDLEWARE = <<"Hooks", "Hooks">>
    /\ lm_pc = "returned"
    /\ _middleware_chain = <<handler>>
    /\ Len(handler) = 3
    /\ _view_middleware = <<1, 2>>
    /\ _template_response_middleware = <<2, 1>>
    /\ _exception_middleware = <<2, 1>>

\* the instantiation of the class at this path raises MiddlewareNotUsed
IsNotUsed(p) ==
    /\ Classes[p].importable
    /\ Classes[p].async_capable
    /\ Classes[p].init = "MiddlewareNotUsed"

\* settings.MIDDLEWARE with the entries that raise MiddlewareNotUsed deleted
Deleted == SelectSeq(MIDDLEWARE, LAMBDA p : ~IsNotUsed(p))

\* the paths of the instances of a list of positions; the core is "core"
PathsOf(q) ==
    [k \in 1..Len(q) |->
        IF q[k] = CoreLayer THEN "core" ELSE MIDDLEWARE[q[k]]]

\* a list of paths, last first
Backwards(q) == [k \in 1..Len(q) |-> q[Len(q) + 1 - k]]

\* the pass of the loop over a class whose instantiation raises
\* MiddlewareNotUsed
NotUsedPass ==
    /\ lm_pc = "loop"
    /\ Len(lm_todo) > 0
    /\ IsNotUsed(MIDDLEWARE[Head(lm_todo)])

\* C18: a middleware whose instantiation raises MiddlewareNotUsed is
\* passed over without an error: the pass leaves the accumulated handler
\* and the three hook lists as they were and the loop goes on; the chain
\* and the hook lists published are those of settings.MIDDLEWARE with that
\* entry deleted.
C18_NotUsedDeleted ==
    /\ [](lm_pc = "returned" =>
            /\ PathsOf([k \in 1..Len(handler) |-> handler[k].layer]) =
                  Deleted \o <<"core">>
            /\ PathsOf(_view_middleware) =
                  SelectSeq(Deleted,
                      LAMBDA p : Classes[p].process_view # "absent")
            /\ PathsOf(_template_response_middleware) =
                  Backwards(SelectSeq(Deleted,
                      LAMBDA p : Classes[p].process_template_response))
            /\ PathsOf(_exception_middleware) =
                  Backwards(SelectSeq(Deleted,
                      LAMBDA p : Classes[p].process_exception))
            /\ _middleware_chain = <<handler>>)
    /\ [][NotUsedPass =>
            /\ lm_pc' = "loop"
            /\ lm_error' = "none"
            /\ lm_todo' = Tail(lm_todo)
            /\ UNCHANGED <<handler, HookLists, _middleware_chain>>]_vars

\* a chain is published for a list whose last entry raised MiddlewareNotUsed
C18_Witness ==
    /\ MIDDLEWARE = <<"Hooks", "NotUsed">>
    /\ lm_pc = "returned"
    /\ _middleware_chain = <<<<convert_exception_to_response(1),
                               convert_exception_to_response(CoreLayer)>>>>
    /\ HookLists = <<<<1>>, <<1>>, <<1>>>>

(***************************************************************************)
(* Properties of the dispatcher.                                           *)
(***************************************************************************)
\* the process_view calls that returned a true value
ShortCircuits ==
    {k \in 1..Len(view_calls) :
        view_calls[k].result \in {"Response", "Template", "Coroutine"}}

\* the first of them
FirstShortCircuit ==
    CHOOSE k \in ShortCircuits : \A j \in ShortCircuits : k <= j

\* the view hooks are called in the order of self._view_middleware
ViewHooksInOrder ==
    /\ Len(view_calls) <= Len(_view_middleware)
    /\ \A k \in 1..Len(view_calls) :
          view_calls[k].hook = _view_middleware[k]

\* the coroutine is past the view hooks and the call of the view
PastExec ==
    d_pc \in {"check", "template_hooks", "render", "render_running",
              "final", "returned"}

\* C12 as stated: the view hooks are called in list order; after the first
\* one that returns a non-empty result no later view hook is called, the
\* view is not called, no template-response hook and no render is applied,
\* and the value returned is that result; the view is skipped only when
\* some view hook returned a non-empty result.
C12_ShortCircuitToDone ==
    /\ ViewHooksInOrder
    /\ ShortCircuits # {} =>
        /\ Len(view_calls) = FirstShortCircuit
        /\ ~exec_called
        /\ template_calls = <<>>
        /\ ~render_called
        /\ d_pc = "returned" =>
              d_response = view_calls[FirstShortCircuit].result
    /\ PastExec /\ ~exec_called => ShortCircuits # {}

\* C12 amended: the view hooks are called in list order; the first one
\* that returns a true value ends the loop, and the view is called exactly
\* when no hook was called or the last one called returned None (a value
\* that is false without being None ends nothing and still skips the
\* view).  The result of a hook that skipped the view is not the response
\* yet: it is passed to check_response as the view's would be, so a
\* coroutine is never returned, and a result with a callable render goes
\* through every template-response hook and the render step before
\* _get_response_async returns; a result without render is returned as is.
C12_ShortCircuitSkipsExec ==
    /\ ViewHooksInOrder
    /\ \A k \in 1..(Len(view_calls) - 1) :
          view_calls[k].result \in {"None", "Falsy"}
    /\ ShortCircuits # {} => ~exec_called
    /\ PastExec /\ recoveries = <<>> =>
          (exec_called <=>
              \/ view_calls = <<>>
              \/ view_calls[Len(view_calls)].result = "None")
    /\ ShortCircuits # {} /\ d_pc = "returned" =>
          LET r == view_calls[FirstShortCircuit].result
          IN  /\ r # "Coroutine"
              /\ r = "Response" =>
                    /\ d_response = r
                    /\ template_calls = <<>>
                    /\ ~render_called
              /\ r = "Template" =>
                    /\ template_calls = _template_response_middleware
                    /\ render_called \/ recoveries = <<"render">>

\* the first of two view hooks returned a response with render: the second
\* hook and the view were skipped, the template-response hooks and render
\* were applied
C12_Witness ==
    /\ d_pc = "returned"
    /\ Len(_view_middleware) = 2
    /\ view_calls = <<[hook |-> 1, result |-> "Template"]>>
    /\ ~exec_called
    /\ Len(template_calls) = 2
    /\ render_called

\* the exceptions the view and the render step raise
TryBlockErrors == {"ViewError", "RenderError", "AttributeError"}

\* the exception hooks are called in the order of
\* self._exception_middleware, and an exception of the view or of render
\* leaves only after all of them were called
HooksConsulted ==
    /\ Len(exc_calls) <= Len(_exception_middleware)
    /\ \A k \in 1..Len(exc_calls) : exc_calls[k] = _exception_middleware[k]
    /\ d_pc = "raised" /\ d_error \in TryBlockErrors =>
          /\ recoveries # <<>>
          /\ exc_calls = _exception_middleware

\* process_exception_by_middleware has returned a response
Recovered == d_pc = "recover" /\ d_pc' \notin {"recover", "raised"}

\* C13 as stated: an exception of the view or of render is passed to the
\* exception hooks in list order until one returns a response; that
\* response becomes the result, and it is validated in the same way,
\* by check_response, whether the view or render had raised; when no hook
\* returns a response the original exception leaves _get_response_async.
C13_RecoveredAlike ==
    /\ []HooksConsulted
    /\ [][Recovered =>
            /\ Truthy(d_response')
            /\ d_pc' = "check"]_vars

\* C13 amended: an exception of the view or of render is passed to the
\* exception hooks in list order until one returns a true value, which
\* becomes the response; when every hook returned None or a false value
\* the original exception leaves _get_response_async, and when a hook
\* raises, the hook's exception leaves.  The recovered response is not
\* handled alike: after the view it is passed to check_response and then
\* to the template-response hooks and render like a view's result; after
\* render it goes straight to the final coroutine test and is returned as
\* it is.
C13_Recovery ==
    /\ []HooksConsulted
    /\ [][d_pc = "recover" =>
            \/ UNCHANGED <<d_pc, d_i, exc_calls>>
            \/ /\ d_pc' = "recover"
               /\ d_i' = d_i + 1
               /\ exc_calls' = Append(exc_calls, _exception_middleware[d_i])
            \/ /\ d_pc' = "raised"
               /\ \/ /\ d_error' = d_error
                     /\ exc_calls' = _exception_middleware
                     /\ exc_calls = _exception_middleware
                  \/ /\ d_error' = "ExceptionHookError"
                     /\ exc_calls' =
                           Append(exc_calls, _exception_middleware[d_i])
            \/ /\ Recovered
               /\ Truthy(d_response')
               /\ exc_calls' = Append(exc_calls, _exception_middleware[d_i])
               /\ d_pc' = IF d_from = "exec" THEN "check" ELSE "final"]_vars

\* a response recovered after the view went through the template-response
\* hooks and render; render raised, and the response recovered after it is
\* returned with its render not called
C13_Witness ==
    /\ d_pc = "returned"
    /\ recoveries = <<"exec", "render">>
    /\ exc_calls = _exception_middleware
    /\ Len(exc_calls) = 2
    /\ template_calls # <<>>
    /\ d_response = "Template"

\* C14 as stated: whenever a blocking view, the exception hooks or a
\* blocking render of the request are running, they run on a thread of the
\* pool, and the event loop can make a step for another connection.
C14_BlockingRunsOnPool ==
    \A k \in 1..Len(running) :
        /\ running[k].thread = "pool"
        /\ others < MaxOther => ENABLED OtherConnection

\* C19 as stated: whenever _get_response_async returns, on any path, the
\* value returned is neither a coroutine that was not awaited nor None; a
\* coroutine left at the end raises RuntimeError.
C19_ReturnsFinishedResponse ==
    /\ d_pc = "returned" => d_response \notin {"None", "Coroutine"}
    /\ d_pc = "raised" /\ d_error = "RuntimeError" => d_response = "Coroutine"

\* a step of _get_response_async
DispatchStep ==
    \/ Resolve \/ ViewHook \/ Exec \/ ExecSubmit \/ ExecComplete
    \/ ExceptionHook \/ RecoverNone \/ CheckResponse \/ TemplateHook
    \/ Render \/ RenderSubmit \/ RenderComplete \/ Final

\* the stages of _get_response_async, counted down to its end
StageRank ==
    CASE d_pc = "idle" -> 11
      [] d_pc = "view_hooks" -> 10
      [] d_pc = "exec" -> 9
      [] d_pc = "exec_running" -> 8
      [] d_pc = "recover" /\ d_from = "exec" -> 7
      [] d_pc = "check" -> 6
      [] d_pc = "template_hooks" -> 5
      [] d_pc = "render" -> 4
      [] d_pc = "render_running" -> 3
      [] d_pc = "recover" /\ d_from = "render" -> 2
      [] d_pc = "final" -> 1
      [] OTHER -> 0

\* the hooks left in the list being gone through
HooksLeft ==
    CASE d_pc = "view_hooks" -> Len(_view_middleware) + 1 - d_i
      [] d_pc = "template_hooks" ->
            Len(_template_response_middleware) + 1 - d_i
      [] d_pc = "recover" -> Len(_exception_middleware) + 1 - d_i
      [] OTHER -> 0

\* what is left of the dispatch: stages first, hooks of the stage second
Rank == StageRank * (Len(MIDDLEWARE) + 2) + HooksLeft

\* C20: process_exception_by_middleware is called only from the except
\* block of the view and the except block of render, so at most twice for
\* one request, the view's first; an exception raised by a view hook or by
\* a template-response hook leaves _get_response_async at once, with no
\* exception hook called for it; every step of the dispatch lowers what is
\* left of it and a step is possible until the dispatch has returned or
\* raised, so it ends after finitely many steps.
C20_HooksOnlyForViewAndRender ==
    /\ [](/\ recoveries \in {<<>>, <<"exec">>, <<"render">>,
                             <<"exec", "render">>}
          /\ d_error = "ViewHookError" =>
                /\ d_pc = "raised"
                /\ recoveries = <<>>
                /\ exc_calls = <<>>
          /\ d_error = "TemplateHookError" =>
                /\ d_pc = "raised"
                /\ recoveries \in {<<>>, <<"exec">>}
          /\ Rank >= 0
          /\ _middleware_chain # <<>> /\ d_pc \notin {"returned", "raised"} =>
                ENABLED DispatchStep)
    /\ [][/\ d_error' \in {"ViewHookError", "TemplateHookError"}
             /\ d_error' # d_error =>
                /\ d_pc' = "raised"
                /\ UNCHANGED <<recoveries, exc_calls>>
          /\ <<d_pc, d_i>>' # <<d_pc, d_i>> => Rank' < Rank]_vars

\* a template-response hook raised on a handler that has exception hooks:
\* the exception left, and the only call of the exception hooks is the
\* earlier one for the view
C20_Witness ==
    /\ d_pc = "raised"
    /\ d_error = "TemplateHookError"
    /\ recoveries = <<"exec">>
    /\ template_calls # <<>>
    /\ Len(_exception_middleware) = 2
    /\ Len(exc_calls) = 1

============================================================================
